---------------------------- MODULE Spec2Model ----------------------------
(***************************************************************************)
(* pix2pix GAN training pipeline: the training driver (train_utp.py) and   *)
(* the support utilities (utils.py).                                       *)
(*                                                                         *)
(* Specifications:                                                         *)
(*   Spec        __main__ + main(): entry, setup, epoch loop (calling      *)
(*               train_fn), checkpoints, tracker calls, final export.      *)
(*   SpecTrain   train_fn called directly on a synthetic loader.           *)
(*   SpecExport  wandb_log_generated_images / save_some_examples called    *)
(*               directly.                                                 *)
(*   SpecCkpt    save_checkpoint followed by load_checkpoint.              *)
(*   SpecSmooth  smooth_positive_labels / smooth_negative_labels.          *)
(*                                                                         *)
(* Numbers: losses are integers, a mean is the fraction [num, den]; the    *)
(* uniform noise U of torch.rand_like is k / UDen with k in 0..UDen-1 and  *)
(* label values are counted in units of 1 / (10 * UDen), exact arithmetic. *)
(***************************************************************************)
EXTENDS Integers, Sequences, FiniteSets, TLC

VARIABLES
    config,          \* the process-wide configuration module
    config0,         \* the configuration as it was at process start
    pc,              \* position in __main__ / main()
    epoch,           \* loop variable of main()
    events,          \* external calls made so far (tracker, checkpoint writes)
    test_batch,      \* main()'s fixed test batch (0: not bound)
    reads,           \* test batches read so far, by whom and from where
    files,           \* the checkpoint files on disk
    gen, disc,       \* the two models
    opt_gen, opt_disc, \* their optimizers
    applied,         \* gradient contributions used by each optimizer's last step
    nstep,           \* number of training steps started
    train_loader,    \* the training iterator: one entry per batch
    test_n,          \* number of samples of the test / validation dataset
    t_pc, t_idx, disc_losses, gen_l1_losses, gen_adv_losses, t_ret, t_caller,
    x_pc, x_idx, images_to_log, x_batch_to_log, x_caller, x_fwd, x_logged,
    s_epoch, s_folder, s_saved,
    ck_pc, ck_model2, ck_opt2, ck_lr, ck_fresh,
    sm_pc, sm_label, sm_out

mainVars   == <<config, config0, pc, epoch, events, test_batch, reads, files>>
modelVars  == <<gen, disc, opt_gen, opt_disc, applied, nstep>>
loaderVars == <<train_loader, test_n>>
trainVars  == <<t_pc, t_idx, disc_losses, gen_l1_losses, gen_adv_losses, t_ret, t_caller>>
exportVars == <<x_pc, x_idx, images_to_log, x_batch_to_log, x_caller, x_fwd, x_logged>>
sampleVars == <<s_epoch, s_folder, s_saved>>
ckptVars   == <<ck_pc, ck_model2, ck_opt2, ck_lr, ck_fresh>>
smoothVars == <<sm_pc, sm_label, sm_out>>
vars == <<mainVars, modelVars, loaderVars, trainVars, exportVars, sampleVars,
          ckptVars, smoothVars>>

---------------------------------------------------------------------------
(* Bounds of the model *)

MaxEpochs == 12
MaxTestSamples == 11
BatchSize == 2
MaxTrainBatches == 3
MaxBatchToLog == 6
MaxParam == 1
MaxLR == 2
MaxGroups == 2
MaxLabelLen == 2
UDen == 8

(* Program constants *)

CheckpointPeriod == 5
DefaultBatchToLog == 5

---------------------------------------------------------------------------
(* Helpers *)

RECURSIVE SumSeq(_)
SumSeq(s) == IF s = <<>> THEN 0 ELSE s[1] + SumSeq(Tail(s))

SeqsUpTo(S, n) == UNION {[1..k -> S] : k \in 0..n}

NaN == [num |-> 0, den |-> 0]

\* numpy.mean of a list of floats; the mean of the empty list is nan
Mean(s) == IF Len(s) = 0 THEN NaN ELSE [num |-> SumSeq(s), den |-> Len(s)]

\* os.path.join(a, b): an absolute b discards a
IsAbs(p) == Len(p) > 0 /\ p[1] = "/"
OsPathJoin(a, b) == IF IsAbs(b) THEN b ELSE a \o b
Under(p, dir) == Len(p) > Len(dir) /\ SubSeq(p, 1, Len(dir)) = dir

\* wandb.run.dir
RunDir == <<"/", "wandb", "run", "files">>

\* torch DataLoader over n samples, drop_last = False
NumBatches(n) == (n + BatchSize - 1) \div BatchSize
BatchLen(n, i) == IF i * BatchSize <= n THEN BatchSize ELSE n - (i - 1) * BatchSize

\* nn.Module / optimizer as constructed
FreshModel == [training |-> TRUE, params |-> 0, grad |-> {}]
Adam(lr, groups) == [state |-> 0,
                     param_groups |-> [i \in 1..groups |-> [lr |-> lr, betas |-> 5]]]

Event(op, arg, phase, e) == [op |-> op, arg |-> arg, phase |-> phase, epoch |-> e]

---------------------------------------------------------------------------
(* utils.save_checkpoint / utils.load_checkpoint *)

StateDict(model) == model.params
OptStateDict(optimizer) == [state |-> optimizer.state,
                            param_groups |-> optimizer.param_groups]

\* torch.save(checkpoint, filename): the file is created or overwritten
SaveCheckpoint(fs, model, optimizer, filename) ==
    [p \in DOMAIN fs \cup {filename} |->
        IF p = filename
        THEN [state_dict |-> StateDict(model), optimizer |-> OptStateDict(optimizer)]
        ELSE fs[p]]

LoadModel(model, ckpt) == [model EXCEPT !.params = ckpt.state_dict]

LoadOptimizerKeepsSavedLr(optimizer, ckpt, lr) ==
    [state |-> ckpt.optimizer.state,
     param_groups |-> ckpt.optimizer.param_groups]

\* optimizer.load_state_dict(...) and then param_group["lr"] = lr for each group
LoadOptimizer(optimizer, ckpt, lr) ==
    [state |-> ckpt.optimizer.state,
     param_groups |-> [i \in DOMAIN ckpt.optimizer.param_groups |->
                          [ckpt.optimizer.param_groups[i] EXCEPT !.lr = lr]]]

\* Optimizer.load_state_dict raises ValueError on a different number of groups
GroupsMatch(optimizer, ckpt) ==
    Len(optimizer.param_groups) = Len(ckpt.optimizer.param_groups)

---------------------------------------------------------------------------
(* train_fn: one pass over the training iterator *)

\* The models whose parameters are in the autograd graph of each loss.
\* d_loss: disc(mask, image_real) and disc(mask, image_fake.detach())
DLossGraph == {"disc"}
\* g_loss: disc(mask, image_fake) with image_fake = gen(mask), and l1_loss(image_fake, .)
GLossGraph == {"disc", "gen"}

\* loss.backward(): the gradient is accumulated on every parameter of the graph
Backward(model, name, graph, tag) ==
    IF name \in graph THEN [model EXCEPT !.grad = @ \cup {tag}] ELSE model

DiscZeroGradSkipped(d) == d

\* opt_disc.zero_grad()
DiscZeroGrad(d) == [d EXCEPT !.grad = {}]

\* opt_gen.zero_grad()
GenZeroGrad(g) == [g EXCEPT !.grad = {}]

\* scaler.step(optimizer): the parameters move along their gradients
OptimizerStep(model) == [model EXCEPT !.params = @ + 1]
AdamStep(optimizer) == [optimizer EXCEPT !.state = @ + 1]

TrainFnReturnSwapped(adv, l1, d) == <<Mean(d), Mean(l1), Mean(adv)>>

\* return np.mean(gen_adv_losses), np.mean(gen_l1_losses), np.mean(disc_losses)
TrainFnReturn(adv, l1, d) == <<Mean(adv), Mean(l1), Mean(d)>>

Batch == train_loader[t_idx + 1]

T_Begin ==
    /\ t_pc = "t_begin"
    /\ disc_losses' = <<>>
    /\ gen_l1_losses' = <<>>
    /\ gen_adv_losses' = <<>>
    /\ gen' = [gen EXCEPT !.training = TRUE]
    /\ disc' = [disc EXCEPT !.training = TRUE]
    /\ t_idx' = 0
    /\ t_pc' = "t_loop"
    /\ UNCHANGED <<mainVars, opt_gen, opt_disc, applied, nstep, loaderVars,
                   t_ret, t_caller, exportVars, sampleVars, ckptVars, smoothVars>>

\* next batch; forward passes of the discriminator update; d_loss recorded
T_FwdD ==
    /\ t_pc = "t_loop"
    /\ t_idx < Len(train_loader)
    /\ nstep' = nstep + 1
    /\ disc_losses' = Append(disc_losses, Batch.d)
    /\ t_pc' = "t_zeroD"
    /\ UNCHANGED <<mainVars, gen, disc, opt_gen, opt_disc, applied, loaderVars,
                   t_idx, gen_l1_losses, gen_adv_losses, t_ret, t_caller,
                   exportVars, sampleVars, ckptVars, smoothVars>>

T_ZeroD ==
    /\ t_pc = "t_zeroD"
    /\ disc' = DiscZeroGrad(disc)
    /\ t_pc' = "t_backD"
    /\ UNCHANGED <<mainVars, gen, opt_gen, opt_disc, applied, nstep, loaderVars,
                   t_idx, disc_losses, gen_l1_losses, gen_adv_losses, t_ret, t_caller,
                   exportVars, sampleVars, ckptVars, smoothVars>>

T_BackD ==
    /\ t_pc = "t_backD"
    /\ disc' = Backward(disc, "disc", DLossGraph, <<"d_loss", nstep>>)
    /\ gen' = Backward(gen, "gen", DLossGraph, <<"d_loss", nstep>>)
    /\ t_pc' = "t_stepD"
    /\ UNCHANGED <<mainVars, opt_gen, opt_disc, applied, nstep, loaderVars,
                   t_idx, disc_losses, gen_l1_losses, gen_adv_losses, t_ret, t_caller,
                   exportVars, sampleVars, ckptVars, smoothVars>>

T_StepD ==
    /\ t_pc = "t_stepD"
    /\ disc' = OptimizerStep(disc)
    /\ opt_disc' = AdamStep(opt_disc)
    /\ applied' = [applied EXCEPT !.disc = disc.grad]
    /\ t_pc' = "t_fwdG"
    /\ UNCHANGED <<mainVars, gen, opt_gen, nstep, loaderVars,
                   t_idx, disc_losses, gen_l1_losses, gen_adv_losses, t_ret, t_caller,
                   exportVars, sampleVars, ckptVars, smoothVars>>

\* forward passes of the generator update; l1 and g_fake_loss recorded
T_FwdG ==
    /\ t_pc = "t_fwdG"
    /\ gen_l1_losses' = Append(gen_l1_losses, Batch.l1)
    /\ gen_adv_losses' = Append(gen_adv_losses, Batch.adv)
    /\ t_pc' = "t_zeroG"
    /\ UNCHANGED <<mainVars, modelVars, loaderVars, t_idx, disc_losses, t_ret,
                   t_caller, exportVars, sampleVars, ckptVars, smoothVars>>

T_ZeroG ==
    /\ t_pc = "t_zeroG"
    /\ gen' = GenZeroGrad(gen)
    /\ t_pc' = "t_backG"
    /\ UNCHANGED <<mainVars, disc, opt_gen, opt_disc, applied, nstep, loaderVars,
                   t_idx, disc_losses, gen_l1_losses, gen_adv_losses, t_ret, t_caller,
                   exportVars, sampleVars, ckptVars, smoothVars>>

T_BackG ==
    /\ t_pc = "t_backG"
    /\ disc' = Backward(disc, "disc", GLossGraph, <<"g_loss", nstep>>)
    /\ gen' = Backward(gen, "gen", GLossGraph, <<"g_loss", nstep>>)
    /\ t_pc' = "t_stepG"
    /\ UNCHANGED <<mainVars, opt_gen, opt_disc, applied, nstep, loaderVars,
                   t_idx, disc_losses, gen_l1_losses, gen_adv_losses, t_ret, t_caller,
                   exportVars, sampleVars, ckptVars, smoothVars>>

\* generator optimizer step; the progress display is diagnostic only
T_StepG ==
    /\ t_pc = "t_stepG"
    /\ gen' = OptimizerStep(gen)
    /\ opt_gen' = AdamStep(opt_gen)
    /\ applied' = [applied EXCEPT !.gen = gen.grad]
    /\ t_idx' = t_idx + 1
    /\ t_pc' = "t_loop"
    /\ UNCHANGED <<mainVars, disc, opt_disc, nstep, loaderVars,
                   disc_losses, gen_l1_losses, gen_adv_losses, t_ret, t_caller,
                   exportVars, sampleVars, ckptVars, smoothVars>>

T_Return ==
    /\ t_pc = "t_loop"
    /\ t_idx = Len(train_loader)
    /\ t_ret' = TrainFnReturn(gen_adv_losses, gen_l1_losses, disc_losses)
    /\ t_pc' = "t_done"
    /\ pc' = IF t_caller = "main" THEN "m_ckpt" ELSE pc
    /\ UNCHANGED <<config, config0, epoch, events, test_batch, reads, files,
                   modelVars, loaderVars, t_idx, disc_losses, gen_l1_losses,
                   gen_adv_losses, t_caller, exportVars, sampleVars, ckptVars,
                   smoothVars>>

TrainNext ==
    \/ T_Begin \/ T_FwdD \/ T_ZeroD \/ T_BackD \/ T_StepD
    \/ T_FwdG \/ T_ZeroG \/ T_BackG \/ T_StepG \/ T_Return

---------------------------------------------------------------------------
(* Idle values of each group of variables *)

DefaultConfig ==
    [LOG_WANDB |-> FALSE, SAVE_MODEL |-> FALSE, NUM_EPOCHS |-> 0, LEARNING_RATE |-> 2,
     CHECKPOINT_GEN |-> <<"gen.pth.tar">>, CHECKPOINT_DISC |-> <<"disc.pth.tar">>]

MainIdle ==
    /\ config = DefaultConfig
    /\ config0 = config
    /\ pc = "idle"
    /\ epoch = 0
    /\ events = <<>>
    /\ test_batch = 0
    /\ reads = <<>>
    /\ files = <<>>

ModelsFresh ==
    /\ gen = FreshModel
    /\ disc = FreshModel
    /\ opt_gen = Adam(config.LEARNING_RATE, 1)
    /\ opt_disc = Adam(config.LEARNING_RATE, 1)
    /\ applied = [disc |-> {}, gen |-> {}]
    /\ nstep = 0

TrainIdle ==
    /\ t_pc = "idle"
    /\ t_idx = 0
    /\ disc_losses = <<>>
    /\ gen_l1_losses = <<>>
    /\ gen_adv_losses = <<>>
    /\ t_ret = <<NaN, NaN, NaN>>
    /\ t_caller = "none"

ExportIdle ==
    /\ x_pc = "idle"
    /\ x_idx = 0
    /\ images_to_log = <<>>
    /\ x_batch_to_log = DefaultBatchToLog
    /\ x_caller = "none"
    /\ x_fwd = <<>>
    /\ x_logged = <<>>

SampleIdle ==
    /\ s_epoch = 0
    /\ s_folder = FALSE
    /\ s_saved = {}

CkptIdle ==
    /\ ck_pc = "idle"
    /\ ck_model2 = FreshModel
    /\ ck_opt2 = Adam(1, 1)
    /\ ck_lr = 1
    /\ ck_fresh = [params |-> 0, lr |-> 1]

SmoothIdle ==
    /\ sm_pc = "idle"
    /\ sm_label = <<>>
    /\ sm_out = <<>>

---------------------------------------------------------------------------
(* SpecTrain: train_fn on a synthetic training iterator *)

LossValues == {1, 2}
Batches == [d : LossValues, adv : {1, 3}, l1 : {2, 5}]

InitTrain ==
    /\ MainIdle
    /\ gen \in {[FreshModel EXCEPT !.training = b] : b \in BOOLEAN}
    /\ disc \in {[FreshModel EXCEPT !.training = b] : b \in BOOLEAN}
    /\ opt_gen = Adam(config.LEARNING_RATE, 1)
    /\ opt_disc = Adam(config.LEARNING_RATE, 1)
    /\ applied = [disc |-> {}, gen |-> {}]
    /\ nstep = 0
    /\ train_loader \in SeqsUpTo(Batches, MaxTrainBatches)
    /\ test_n = 0
    /\ t_pc = "t_begin"
    /\ t_idx = 0
    /\ disc_losses = <<>>
    /\ gen_l1_losses = <<>>
    /\ gen_adv_losses = <<>>
    /\ t_ret = <<NaN, NaN, NaN>>
    /\ t_caller = "direct"
    /\ ExportIdle /\ SampleIdle /\ CkptIdle /\ SmoothIdle

SpecTrain == InitTrain /\ [][TrainNext]_vars

---------------------------------------------------------------------------
(* wandb_log_generated_images(gen, loader, batch_to_log = 5) *)

ExportPhase == IF x_caller = "main" THEN "post" ELSE "direct"

\* if idx_batch + 1 == batch_to_log: break
ExportBreak(idx_batch, batch_to_log) == idx_batch + 1 = batch_to_log

ExportRestoreModeSkipped(g) == g

\* gen.train() at the end of wandb_log_generated_images
ExportRestoreMode(g) == [g EXCEPT !.training = TRUE]

\* one make_grid([mask, real, fake]) per sample of batch b
Grids(b) == [i \in 1..BatchLen(test_n, b) |-> <<b, i>>]

X_Begin ==
    /\ x_pc = "x_begin"
    /\ images_to_log' = <<>>
    /\ gen' = [gen EXCEPT !.training = FALSE]
    /\ x_idx' = 0
    /\ x_pc' = "x_loop"
    /\ UNCHANGED <<mainVars, disc, opt_gen, opt_disc, applied, nstep, loaderVars,
                   trainVars, x_batch_to_log, x_caller, x_fwd, x_logged,
                   sampleVars, ckptVars, smoothVars>>

\* one iteration of the loop over the loader: draw, run the generator, append
\* the grids, then test the limit
X_Batch ==
    /\ x_pc = "x_loop"
    /\ x_idx < NumBatches(test_n)
    /\ reads' = Append(reads, [by |-> "export", src |-> "loader", batch |-> x_idx + 1])
    /\ x_fwd' = Append(x_fwd, gen.training)
    /\ images_to_log' = images_to_log \o Grids(x_idx + 1)
    /\ x_idx' = x_idx + 1
    /\ x_pc' = IF ExportBreak(x_idx, x_batch_to_log) THEN "x_log" ELSE "x_loop"
    /\ UNCHANGED <<config, config0, pc, epoch, events, test_batch, files,
                   modelVars, loaderVars, trainVars, x_batch_to_log, x_caller,
                   x_logged, sampleVars, ckptVars, smoothVars>>

\* the loader is exhausted
X_Exhausted ==
    /\ x_pc = "x_loop"
    /\ x_idx = NumBatches(test_n)
    /\ x_pc' = "x_log"
    /\ UNCHANGED <<mainVars, modelVars, loaderVars, trainVars, x_idx, images_to_log,
                   x_batch_to_log, x_caller, x_fwd, x_logged, sampleVars, ckptVars,
                   smoothVars>>

\* wandb.log({...: all grids}); gen.train(); return
X_Log ==
    /\ x_pc = "x_log"
    /\ events' = Append(events, Event("log", <<"Generated_images (mask-real-fake)">>,
                                      ExportPhase, epoch))
    /\ x_logged' = Append(x_logged, images_to_log)
    /\ gen' = ExportRestoreMode(gen)
    /\ x_pc' = "x_done"
    /\ pc' = IF x_caller = "main" THEN "m_finish" ELSE pc
    /\ UNCHANGED <<config, config0, epoch, test_batch, reads, files,
                   disc, opt_gen, opt_disc, applied, nstep, loaderVars, trainVars,
                   x_idx, images_to_log, x_batch_to_log, x_caller, x_fwd,
                   sampleVars, ckptVars, smoothVars>>

ExportNext == X_Begin \/ X_Batch \/ X_Exhausted \/ X_Log

---------------------------------------------------------------------------
(* utils.save_some_examples(gen, val_loader, epoch, folder) *)

\* os.makedirs if absent, then next(iter(val_loader)) on a loader with a batch
S_Begin ==
    /\ x_pc = "s_begin"
    /\ NumBatches(test_n) > 0
    /\ s_folder' = TRUE
    /\ reads' = Append(reads, [by |-> "examples", src |-> "loader", batch |-> 1])
    /\ x_pc' = "s_eval"
    /\ UNCHANGED <<config, config0, pc, epoch, events, test_batch, files,
                   modelVars, loaderVars, trainVars, x_idx, images_to_log,
                   x_batch_to_log, x_caller, x_fwd, x_logged, s_epoch, s_saved,
                   ckptVars, smoothVars>>

\* next(iter(val_loader)) on an empty loader raises StopIteration
S_Stop ==
    /\ x_pc = "s_begin"
    /\ NumBatches(test_n) = 0
    /\ s_folder' = TRUE
    /\ x_pc' = "s_raised"
    /\ UNCHANGED <<mainVars, modelVars, loaderVars, trainVars, x_idx, images_to_log,
                   x_batch_to_log, x_caller, x_fwd, x_logged, s_epoch, s_saved,
                   ckptVars, smoothVars>>

S_Eval ==
    /\ x_pc = "s_eval"
    /\ gen' = [gen EXCEPT !.training = FALSE]
    /\ x_pc' = "s_run"
    /\ UNCHANGED <<mainVars, disc, opt_gen, opt_disc, applied, nstep, loaderVars,
                   trainVars, x_idx, images_to_log, x_batch_to_log, x_caller, x_fwd,
                   x_logged, sampleVars, ckptVars, smoothVars>>

\* y_fake = gen(mask); save_image y_gen_<epoch>.png, and label_<epoch>.png at epoch 0
S_Run ==
    /\ x_pc = "s_run"
    /\ x_fwd' = Append(x_fwd, gen.training)
    /\ s_saved' = s_saved \cup {<<"y_gen", s_epoch>>}
                          \cup (IF s_epoch = 0 THEN {<<"label", s_epoch>>} ELSE {})
    /\ x_pc' = "s_train"
    /\ UNCHANGED <<mainVars, modelVars, loaderVars, trainVars, x_idx, images_to_log,
                   x_batch_to_log, x_caller, x_logged, s_epoch, s_folder,
                   ckptVars, smoothVars>>

S_Train ==
    /\ x_pc = "s_train"
    /\ gen' = [gen EXCEPT !.training = TRUE]
    /\ x_pc' = "s_done"
    /\ UNCHANGED <<mainVars, disc, opt_gen, opt_disc, applied, nstep, loaderVars,
                   trainVars, x_idx, images_to_log, x_batch_to_log, x_caller, x_fwd,
                   x_logged, sampleVars, ckptVars, smoothVars>>

SampleNext == S_Begin \/ S_Stop \/ S_Eval \/ S_Run \/ S_Train

---------------------------------------------------------------------------
(* SpecExport: the two routines called directly *)

InitExport ==
    /\ MainIdle
    /\ gen \in {[FreshModel EXCEPT !.training = b] : b \in BOOLEAN}
    /\ disc = FreshModel
    /\ opt_gen = Adam(config.LEARNING_RATE, 1)
    /\ opt_disc = Adam(config.LEARNING_RATE, 1)
    /\ applied = [disc |-> {}, gen |-> {}]
    /\ nstep = 0
    /\ train_loader = <<>>
    /\ test_n \in 0..MaxTestSamples
    /\ TrainIdle
    /\ x_idx = 0
    /\ images_to_log = <<>>
    /\ x_caller = "direct"
    /\ x_fwd = <<>>
    /\ x_logged = <<>>
    /\ s_saved = {}
    /\ \/ /\ x_pc = "x_begin"
          /\ x_batch_to_log \in 0..MaxBatchToLog
          /\ s_epoch = 0
          /\ s_folder = FALSE
       \/ /\ x_pc = "s_begin"
          /\ x_batch_to_log = DefaultBatchToLog
          /\ s_epoch \in 0..1
          /\ s_folder \in BOOLEAN
    /\ CkptIdle /\ SmoothIdle

SpecExport == InitExport /\ [][ExportNext \/ SampleNext]_vars

---------------------------------------------------------------------------
(* __main__ and main() *)

RelocatedPathUnchanged(path) == path

\* os.path.join(wandb.run.dir, config.CHECKPOINT_...)
RelocatedPath(path) == OsPathJoin(RunDir, path)

CheckpointDueShifted(e) == config.SAVE_MODEL /\ (e + 1) % CheckpointPeriod = 0

CheckpointDueUnconditional(e) == e % CheckpointPeriod = 0

\* if config.SAVE_MODEL and epoch % 5 == 0
CheckpointDue(e) == config.SAVE_MODEL /\ e % CheckpointPeriod = 0

EpochLogReadRedrawn == [by |-> "epoch_log", src |-> "loader", batch |-> 1]

\* fakes = gen(test_batch_masks.to(config.DEVICE))
EpochLogRead == [by |-> "epoch_log", src |-> "test_batch", batch |-> test_batch]

\* utils.save_checkpoint(gen, ...) then utils.save_checkpoint(disc, ...)
SaveBoth(fs) ==
    SaveCheckpoint(SaveCheckpoint(fs, gen, opt_gen, config.CHECKPOINT_GEN),
                   disc, opt_disc, config.CHECKPOINT_DISC)

SaveEvents(phase) ==
    <<Event("save_checkpoint", config.CHECKPOINT_GEN, phase, epoch),
      Event("save_checkpoint", config.CHECKPOINT_DISC, phase, epoch)>>

UploadEvents(phase) ==
    <<Event("wandb.save", config.CHECKPOINT_GEN, phase, epoch),
      Event("wandb.save", config.CHECKPOINT_DISC, phase, epoch)>>

\* if config.LOG_WANDB: wandb.login(...); wandb.init(...)
E_WandbInit ==
    /\ pc = "e_start"
    /\ config.LOG_WANDB
    /\ events' = events \o <<Event("login", <<>>, "entry", 0),
                             Event("init", <<"unitopatho-generative">>, "entry", 0)>>
    /\ pc' = "e_setgen"
    /\ UNCHANGED <<config, config0, epoch, test_batch, reads, files, modelVars,
                   loaderVars, trainVars, exportVars, sampleVars, ckptVars, smoothVars>>

E_SetGen ==
    /\ pc = "e_setgen"
    /\ config' = [config EXCEPT !.CHECKPOINT_GEN = RelocatedPath(@)]
    /\ events' = Append(events, Event("config_set", <<"CHECKPOINT_GEN">>, "entry", 0))
    /\ pc' = "e_setdisc"
    /\ UNCHANGED <<config0, epoch, test_batch, reads, files, modelVars,
                   loaderVars, trainVars, exportVars, sampleVars, ckptVars, smoothVars>>

E_SetDisc ==
    /\ pc = "e_setdisc"
    /\ config' = [config EXCEPT !.CHECKPOINT_DISC = RelocatedPath(@)]
    /\ events' = Append(events, Event("config_set", <<"CHECKPOINT_DISC">>, "entry", 0))
    /\ pc' = "m_start"
    /\ UNCHANGED <<config0, epoch, test_batch, reads, files, modelVars,
                   loaderVars, trainVars, exportVars, sampleVars, ckptVars, smoothVars>>

E_NoWandb ==
    /\ pc = "e_start"
    /\ ~config.LOG_WANDB
    /\ pc' = "m_start"
    /\ UNCHANGED <<config, config0, epoch, events, test_batch, reads, files, modelVars,
                   loaderVars, trainVars, exportVars, sampleVars, ckptVars, smoothVars>>

\* set_seed, models, optimizers, losses, init_weights, loaders, scalers
M_Setup ==
    /\ pc = "m_start"
    /\ gen' = FreshModel
    /\ disc' = FreshModel
    /\ opt_gen' = Adam(config.LEARNING_RATE, 1)
    /\ opt_disc' = Adam(config.LEARNING_RATE, 1)
    /\ pc' = "m_testbatch"
    /\ UNCHANGED <<config, config0, epoch, events, test_batch, reads, files,
                   applied, nstep, loaderVars, trainVars, exportVars, sampleVars,
                   ckptVars, smoothVars>>

\* test_batch = next(iter(test_loader)); wandb.log({"Real": .., "Masks": ..})
M_TestBatch ==
    /\ pc = "m_testbatch"
    /\ config.LOG_WANDB
    /\ NumBatches(test_n) > 0
    /\ test_batch' = 1
    /\ events' = events \o <<Event("draw_test_batch", <<>>, "pre", 0),
                             Event("log", <<"Real", "Masks">>, "pre", 0)>>
    /\ epoch' = 0
    /\ pc' = "m_loop"
    /\ UNCHANGED <<config, config0, reads, files, modelVars, loaderVars, trainVars,
                   exportVars, sampleVars, ckptVars, smoothVars>>

\* next(iter(test_loader)) on an empty test loader raises StopIteration
M_TestBatchStop ==
    /\ pc = "m_testbatch"
    /\ config.LOG_WANDB
    /\ NumBatches(test_n) = 0
    /\ pc' = "raised"
    /\ UNCHANGED <<config, config0, epoch, events, test_batch, reads, files,
                   modelVars, loaderVars, trainVars, exportVars, sampleVars,
                   ckptVars, smoothVars>>

M_NoTestBatch ==
    /\ pc = "m_testbatch"
    /\ ~config.LOG_WANDB
    /\ epoch' = 0
    /\ pc' = "m_loop"
    /\ UNCHANGED <<config, config0, events, test_batch, reads, files,
                   modelVars, loaderVars, trainVars, exportVars, sampleVars,
                   ckptVars, smoothVars>>

\* for epoch in range(config.NUM_EPOCHS): ... = train_fn(...)
M_CallTrain ==
    /\ pc = "m_loop"
    /\ epoch < config.NUM_EPOCHS
    /\ t_pc' = "t_begin"
    /\ t_caller' = "main"
    /\ pc' = "m_in_train"
    /\ UNCHANGED <<config, config0, epoch, events, test_batch, reads, files,
                   modelVars, loaderVars, t_idx, disc_losses, gen_l1_losses,
                   gen_adv_losses, t_ret, exportVars, sampleVars, ckptVars, smoothVars>>

\* the periodic checkpoint of both models, uploaded when tracking is on
M_Ckpt ==
    /\ pc = "m_ckpt"
    /\ IF CheckpointDue(epoch)
       THEN /\ files' = SaveBoth(files)
            /\ events' = events \o SaveEvents("loop")
                                \o (IF config.LOG_WANDB THEN UploadEvents("loop") ELSE <<>>)
       ELSE UNCHANGED <<files, events>>
    /\ pc' = "m_log"
    /\ UNCHANGED <<config, config0, epoch, test_batch, reads, modelVars, loaderVars,
                   trainVars, exportVars, sampleVars, ckptVars, smoothVars>>

\* the per-epoch log of the losses and of the fakes of the fixed test batch
M_EpochLog ==
    /\ pc = "m_log"
    /\ IF config.LOG_WANDB
       THEN /\ reads' = Append(reads, EpochLogRead)
            /\ events' = Append(events,
                    Event("log", <<"generator_adv_loss", "generator_l1_loss",
                                   "discriminator_loss", "Fakes">>, "loop", epoch))
            /\ gen' = [gen EXCEPT !.training = TRUE]
       ELSE UNCHANGED <<reads, events, gen>>
    /\ epoch' = epoch + 1
    /\ pc' = "m_loop"
    /\ UNCHANGED <<config, config0, test_batch, files, disc, opt_gen, opt_disc,
                   applied, nstep, loaderVars, trainVars, exportVars, sampleVars,
                   ckptVars, smoothVars>>

\* after the loop: save both models
M_Final ==
    /\ pc = "m_loop"
    /\ epoch >= config.NUM_EPOCHS
    /\ files' = SaveBoth(files)
    /\ events' = events \o SaveEvents("post")
    /\ pc' = IF config.LOG_WANDB THEN "m_export" ELSE "done"
    /\ UNCHANGED <<config, config0, epoch, test_batch, reads, modelVars, loaderVars,
                   trainVars, exportVars, sampleVars, ckptVars, smoothVars>>

\* wandb_log_generated_images(gen, test_loader)
M_CallExport ==
    /\ pc = "m_export"
    /\ x_pc' = "x_begin"
    /\ x_caller' = "main"
    /\ x_batch_to_log' = DefaultBatchToLog
    /\ pc' = "m_in_export"
    /\ UNCHANGED <<config, config0, epoch, events, test_batch, reads, files,
                   modelVars, loaderVars, trainVars, x_idx, images_to_log, x_fwd,
                   x_logged, sampleVars, ckptVars, smoothVars>>

\* wandb.finish()
M_Finish ==
    /\ pc = "m_finish"
    /\ events' = Append(events, Event("finish", <<>>, "post", epoch))
    /\ pc' = "done"
    /\ UNCHANGED <<config, config0, epoch, test_batch, reads, files, modelVars,
                   loaderVars, trainVars, exportVars, sampleVars, ckptVars, smoothVars>>

MainNext ==
    \/ E_WandbInit \/ E_SetGen \/ E_SetDisc \/ E_NoWandb
    \/ M_Setup \/ M_TestBatch \/ M_TestBatchStop \/ M_NoTestBatch
    \/ M_CallTrain \/ M_Ckpt \/ M_EpochLog \/ M_Final \/ M_CallExport \/ M_Finish

CheckpointNames ==
    {[gen |-> <<"gen.pth.tar">>, disc |-> <<"disc.pth.tar">>],
     [gen |-> <<"checkpoints", "gen.pth.tar">>, disc |-> <<"checkpoints", "disc.pth.tar">>]}

MainTrainLoaders == {<<[d |-> 1, adv |-> 3, l1 |-> 5]>>}

Init ==
    /\ \E log \in BOOLEAN, save \in BOOLEAN, n \in 0..MaxEpochs, names \in CheckpointNames :
          config = [LOG_WANDB |-> log, SAVE_MODEL |-> save, NUM_EPOCHS |-> n,
                    LEARNING_RATE |-> 2,
                    CHECKPOINT_GEN |-> names.gen, CHECKPOINT_DISC |-> names.disc]
    /\ config0 = config
    /\ pc = "e_start"
    /\ epoch = 0
    /\ events = <<>>
    /\ test_batch = 0
    /\ reads = <<>>
    /\ files = <<>>
    /\ ModelsFresh
    /\ train_loader \in MainTrainLoaders
    /\ test_n \in 0..MaxTestSamples
    /\ TrainIdle /\ ExportIdle /\ SampleIdle /\ CkptIdle /\ SmoothIdle

Next == MainNext \/ TrainNext \/ ExportNext

Spec == Init /\ [][Next]_vars

---------------------------------------------------------------------------
(* SpecCkpt: save_checkpoint(gen, opt_gen, file), then                     *)
(* load_checkpoint(file, model2, optimizer2, lr) into other instances      *)

\* filename = "./model.pth"
CkFile == <<".", "model.pth">>

CK_Save ==
    /\ ck_pc = "start"
    /\ files' = SaveCheckpoint(files, gen, opt_gen, CkFile)
    /\ ck_pc' = "saved"
    /\ UNCHANGED <<config, config0, pc, epoch, events, test_batch, reads, modelVars,
                   loaderVars, trainVars, exportVars, sampleVars, ck_model2, ck_opt2,
                   ck_lr, ck_fresh, smoothVars>>

CK_Load ==
    /\ ck_pc = "saved"
    /\ CkFile \in DOMAIN files
    /\ GroupsMatch(ck_opt2, files[CkFile])
    /\ ck_model2' = LoadModel(ck_model2, files[CkFile])
    /\ ck_opt2' = LoadOptimizer(ck_opt2, files[CkFile], ck_lr)
    /\ ck_pc' = "loaded"
    /\ UNCHANGED <<mainVars, modelVars, loaderVars, trainVars, exportVars, sampleVars,
                   ck_lr, ck_fresh, smoothVars>>

\* optimizer.load_state_dict raises after model.load_state_dict has been done
CK_LoadMismatch ==
    /\ ck_pc = "saved"
    /\ CkFile \in DOMAIN files
    /\ ~GroupsMatch(ck_opt2, files[CkFile])
    /\ ck_model2' = LoadModel(ck_model2, files[CkFile])
    /\ ck_pc' = "raised"
    /\ UNCHANGED <<mainVars, modelVars, loaderVars, trainVars, exportVars, sampleVars,
                   ck_opt2, ck_lr, ck_fresh, smoothVars>>

\* torch.load of a file that was never written raises
CK_LoadMissing ==
    /\ ck_pc = "start"
    /\ CkFile \notin DOMAIN files
    /\ ck_pc' = "raised"
    /\ UNCHANGED <<mainVars, modelVars, loaderVars, trainVars, exportVars, sampleVars,
                   ck_model2, ck_opt2, ck_lr, ck_fresh, smoothVars>>

CkptNext == CK_Save \/ CK_Load \/ CK_LoadMismatch \/ CK_LoadMissing

InitCkpt ==
    /\ MainIdle
    /\ \E p \in 0..MaxParam : gen = [FreshModel EXCEPT !.params = p]
    /\ disc = FreshModel
    /\ \E st \in 0..MaxParam, lr \in 1..MaxLR, g \in 1..MaxGroups, b \in {5, 9} :
          opt_gen = [state |-> st,
                     param_groups |-> [i \in 1..g |-> [lr |-> lr, betas |-> b]]]
    /\ opt_disc = Adam(config.LEARNING_RATE, 1)
    /\ applied = [disc |-> {}, gen |-> {}]
    /\ nstep = 0
    /\ train_loader = <<>>
    /\ test_n = 0
    /\ TrainIdle /\ ExportIdle /\ SampleIdle
    /\ ck_pc = "start"
    /\ \E p \in 0..MaxParam, lr \in 1..MaxLR, g \in 1..MaxGroups :
          /\ ck_model2 = [FreshModel EXCEPT !.params = p]
          /\ ck_opt2 = Adam(lr, g)
          /\ ck_fresh = [params |-> p, lr |-> lr]
    /\ ck_lr \in 1..MaxLR
    /\ SmoothIdle

SpecCkpt == InitCkpt /\ [][CkptNext]_vars

---------------------------------------------------------------------------
(* SpecSmooth: the label smoothing helpers *)

\* the value 1.0 in units of 1 / (10 * UDen)
Unit == 10 * UDen

\* torch.rand_like(label): one draw k / UDen in [0, 1) per element
RandLike(label) == [DOMAIN label -> 0..(UDen - 1)]

SmoothPositiveWrongOffset(x, k) == x - 4 * UDen + 5 * k

\* label - 0.3 + (torch.rand_like(label) * 0.5), one element
SmoothPositive(x, k) == x - 3 * UDen + 5 * k

\* label + torch.rand_like(label) * 0.3, one element
SmoothNegative(x, k) == x + 3 * k

SM_Positive ==
    /\ sm_pc = "start"
    /\ \E u \in RandLike(sm_label) :
          sm_out' = [i \in DOMAIN sm_label |-> SmoothPositive(sm_label[i], u[i])]
    /\ sm_pc' = "positive"
    /\ UNCHANGED <<mainVars, modelVars, loaderVars, trainVars, exportVars, sampleVars,
                   ckptVars, sm_label>>

SM_Negative ==
    /\ sm_pc = "start"
    /\ \E u \in RandLike(sm_label) :
          sm_out' = [i \in DOMAIN sm_label |-> SmoothNegative(sm_label[i], u[i])]
    /\ sm_pc' = "negative"
    /\ UNCHANGED <<mainVars, modelVars, loaderVars, trainVars, exportVars, sampleVars,
                   ckptVars, sm_label>>

InitSmooth ==
    /\ MainIdle /\ ModelsFresh
    /\ train_loader = <<>>
    /\ test_n = 0
    /\ TrainIdle /\ ExportIdle /\ SampleIdle /\ CkptIdle
    /\ sm_pc = "start"
    /\ sm_label \in SeqsUpTo({0, Unit}, MaxLabelLen)
    /\ sm_out = <<>>

SpecSmooth == InitSmooth /\ [][SM_Positive \/ SM_Negative]_vars

---------------------------------------------------------------------------
(* Properties *)

Count(op, arg, phase, e) ==
    Cardinality({i \in DOMAIN events :
                    /\ events[i].op = op
                    /\ events[i].arg = arg
                    /\ events[i].phase = phase
                    /\ events[i].epoch = e})

CountOp(op) == Cardinality({i \in DOMAIN events : events[i].op = op})

CountOpArg(op, arg) ==
    Cardinality({i \in DOMAIN events : events[i].op = op /\ events[i].arg = arg})

CountPhase(op, arg, phase) ==
    Cardinality({i \in DOMAIN events :
                    events[i].op = op /\ events[i].arg = arg /\ events[i].phase = phase})

CkptPaths == {config.CHECKPOINT_GEN, config.CHECKPOINT_DISC}

EntryPcs == {"e_start", "e_setgen", "e_setdisc"}

Min(a, b) == IF a < b THEN a ELSE b

\* C1 (Spec): a completed run of main() with SAVE_MODEL on saves both models
\* inside the loop exactly at the epochs e < NUM_EPOCHS with e % 5 = 0, once
\* each, and every completed run saves both exactly once more after the loop;
\* for 12 epochs that is {0, 5, 10} plus the final save, 4 saves per model,
\* with LOG_WANDB on or off.
C1_CheckpointCadence ==
    pc = "done" =>
        /\ config.SAVE_MODEL =>
              \A e \in 0..(config.NUM_EPOCHS - 1) : \A f \in CkptPaths :
                  Count("save_checkpoint", f, "loop", e) = (IF e % 5 = 0 THEN 1 ELSE 0)
        /\ \A f \in CkptPaths : CountPhase("save_checkpoint", f, "post") = 1
        /\ (config.SAVE_MODEL /\ config.NUM_EPOCHS = 12) =>
              \A f \in CkptPaths :
                  /\ CountOpArg("save_checkpoint", f) = 4
                  /\ {events[i].epoch : i \in {j \in DOMAIN events :
                          /\ events[j].op = "save_checkpoint"
                          /\ events[j].arg = f
                          /\ events[j].phase = "loop"}} = {0, 5, 10}

C1_Witness ==
    /\ pc = "done"
    /\ config.SAVE_MODEL
    /\ config.LOG_WANDB
    /\ config.NUM_EPOCHS = 12
    /\ CountOpArg("save_checkpoint", config.CHECKPOINT_GEN) = 4

\* C2 (SpecCkpt): when load_checkpoint returns after save_checkpoint, the
\* second model has the saved parameters, the second optimizer has the saved
\* state and the saved non-lr group fields, and every group's lr is the lr
\* given to load_checkpoint, not the saved one.
C2_CheckpointRoundTrip ==
    ck_pc = "loaded" =>
        /\ ck_model2.params = gen.params
        /\ ck_opt2.state = opt_gen.state
        /\ Len(ck_opt2.param_groups) = Len(opt_gen.param_groups)
        /\ \A i \in DOMAIN ck_opt2.param_groups :
              /\ ck_opt2.param_groups[i].lr = ck_lr
              /\ ck_opt2.param_groups[i].betas = opt_gen.param_groups[i].betas

C2_Witness ==
    /\ ck_pc = "loaded"
    /\ ck_fresh.params # gen.params
    /\ ck_lr # opt_gen.param_groups[1].lr
    /\ Len(ck_opt2.param_groups) = 2
    /\ opt_gen.param_groups[1].betas = 9

\* C3 (SpecExport): when wandb_log_generated_images or save_some_examples has
\* returned, the generator is in training mode, and every generator forward
\* pass the routine made ran in evaluation mode.
C3_ModeRestored ==
    x_pc \in {"x_done", "s_done"} =>
        /\ gen.training = TRUE
        /\ \A i \in DOMAIN x_fwd : x_fwd[i] = FALSE
        /\ x_pc = "s_done" => Len(x_fwd) = 1
        /\ x_pc = "x_done" => Len(x_fwd) = x_idx

C3_Witness ==
    /\ x_pc = "x_done"
    /\ x_idx > 0
    /\ x_idx < x_batch_to_log
    /\ gen.training

LoaderD == [i \in DOMAIN train_loader |-> train_loader[i].d]
LoaderAdv == [i \in DOMAIN train_loader |-> train_loader[i].adv]
LoaderL1 == [i \in DOMAIN train_loader |-> train_loader[i].l1]

IsMeanOf(m, s) == m.den > 0 /\ m.num * Len(s) = SumSeq(s) * m.den

\* C5 (SpecTrain): after t steps train_fn has recorded t values in each of the
\* three loss histories, and on a loader of K >= 1 batches it returns the means
\* over the K steps of the generator adversarial, generator L1 and
\* discriminator losses, in that order.
C5_EpochLossAggregation ==
    /\ t_pc \in {"t_loop", "t_done"} =>
          /\ Len(gen_adv_losses) = t_idx
          /\ Len(gen_l1_losses) = t_idx
          /\ Len(disc_losses) = t_idx
    /\ (t_pc = "t_done" /\ Len(train_loader) >= 1) =>
          /\ t_idx = Len(train_loader)
          /\ gen_adv_losses = LoaderAdv
          /\ gen_l1_losses = LoaderL1
          /\ disc_losses = LoaderD
          /\ IsMeanOf(t_ret[1], LoaderAdv)
          /\ IsMeanOf(t_ret[2], LoaderL1)
          /\ IsMeanOf(t_ret[3], LoaderD)

C5_Witness ==
    /\ t_pc = "t_done"
    /\ Len(train_loader) = 3
    /\ SumSeq(LoaderD) = 4
    /\ SumSeq(LoaderAdv) = 5
    /\ SumSeq(LoaderL1) = 9
    /\ t_ret[3] = [num |-> 4, den |-> 3]

Relocated0 == {RunDir \o config0.CHECKPOINT_GEN, RunDir \o config0.CHECKPOINT_DISC}

C7_UploadsEveryFifthEpochAndAtRunEnd ==
    (pc = "done" /\ config.LOG_WANDB) =>
        /\ \A e \in 0..(config.NUM_EPOCHS - 1) : \A f \in CkptPaths :
              e % 5 = 0 => Count("wandb.save", f, "loop", e) >= 1
        /\ \A f \in CkptPaths : CountPhase("wandb.save", f, "post") >= 1
        /\ events[Len(events)].op = "finish"

\* C7 amended (Spec): with LOG_WANDB on, wandb.save is called only inside the
\* epoch loop, at epochs e with e % 5 = 0 of a run with SAVE_MODEL on, for
\* each file right after both save_checkpoint calls of that epoch; a completed
\* run has uploaded each file exactly once per such epoch and never after the
\* final save; wandb.finish is called once, as the last external call, after
\* every upload and every log call.
C7_UploadsFollowPeriodicSaves ==
    config.LOG_WANDB =>
        /\ \A i \in DOMAIN events :
              events[i].op = "wandb.save" =>
                  /\ events[i].phase = "loop"
                  /\ config.SAVE_MODEL
                  /\ events[i].epoch % 5 = 0
                  /\ i > 2
                  /\ events[i - 2] = [events[i] EXCEPT !.op = "save_checkpoint"]
        /\ \A i \in DOMAIN events : events[i].op = "finish" => i = Len(events)
        /\ pc = "done" =>
              /\ \A e \in 0..(config.NUM_EPOCHS - 1) : \A f \in CkptPaths :
                    Count("wandb.save", f, "loop", e)
                        = (IF config.SAVE_MODEL /\ e % 5 = 0 THEN 1 ELSE 0)
              /\ \A f \in CkptPaths : CountPhase("wandb.save", f, "post") = 0
              /\ CountOp("finish") = 1
              /\ events[Len(events)].op = "finish"

C7_Witness ==
    /\ pc = "done"
    /\ config.LOG_WANDB
    /\ config.SAVE_MODEL
    /\ config.NUM_EPOCHS = 12
    /\ CountOpArg("wandb.save", config.CHECKPOINT_GEN) = 3
    /\ CountOpArg("save_checkpoint", config.CHECKPOINT_GEN) = 4

ReadsBy(who) == {i \in DOMAIN reads : reads[i].by = who}

LoaderDraws ==
    CountOp("draw_test_batch") + Cardinality({i \in DOMAIN reads : reads[i].src = "loader"})

\* C8 as stated (Spec): the test iterator is drawn from once, before the
\* loop, and every batch the per-epoch logging step or the end-of-run export
\* step reads is that fixed batch.
C8_FixedBatchSharedWithExport ==
    /\ LoaderDraws <= 1
    /\ \A i \in ReadsBy("epoch_log") \cup ReadsBy("export") :
          reads[i].src = "test_batch" /\ reads[i].batch = test_batch

\* C8 amended (Spec): with LOG_WANDB on, main() draws its fixed test batch
\* once, before the loop, as the first batch of the test loader, and binds it
\* for the rest of the run; the per-epoch logging step reads that batch once
\* per epoch; the end-of-run export step does not read it: it iterates the
\* test loader anew and reads its first min(L, 5) batches in order.
C8_FixedBatchReadByEpochLog ==
    /\ CountOp("draw_test_batch") <= 1
    /\ \A i \in DOMAIN events : events[i].op = "draw_test_batch" => events[i].phase = "pre"
    /\ test_batch = (IF CountOp("draw_test_batch") = 1 THEN 1 ELSE 0)
    /\ (config.LOG_WANDB /\ pc \notin EntryPcs \cup {"m_start", "m_testbatch", "raised"})
          => test_batch = 1
    /\ \A i \in ReadsBy("epoch_log") :
          reads[i].src = "test_batch" /\ reads[i].batch = test_batch /\ test_batch = 1
    /\ Cardinality(ReadsBy("epoch_log")) = (IF config.LOG_WANDB THEN epoch ELSE 0)
    /\ \A i \in ReadsBy("export") : reads[i].src = "loader"
    /\ (pc = "done" /\ config.LOG_WANDB) =>
          /\ Cardinality(ReadsBy("epoch_log")) = config.NUM_EPOCHS
          /\ Cardinality(ReadsBy("export")) = Min(NumBatches(test_n), 5)
          /\ \A k \in 1..Min(NumBatches(test_n), 5) :
                reads[config.NUM_EPOCHS + k] =
                    [by |-> "export", src |-> "loader", batch |-> k]

C8_Witness ==
    /\ pc = "done"
    /\ config.LOG_WANDB
    /\ config.NUM_EPOCHS >= 2
    /\ NumBatches(test_n) > 5
    /\ test_batch = 1
    /\ Cardinality(ReadsBy("export")) = 5

RECURSIVE SamplesUpTo(_)
SamplesUpTo(b) == IF b = 0 THEN 0 ELSE BatchLen(test_n, b) + SamplesUpTo(b - 1)

\* C9 as stated (SpecExport): when wandb_log_generated_images has returned it
\* has drawn at most batch_to_log batches, images_to_log holds one grid per
\* sample of each drawn batch, and all grids were logged in exactly one
\* tracker call.
C9_ExportBatchLimit ==
    x_pc = "x_done" =>
        /\ x_idx <= x_batch_to_log
        /\ x_idx <= NumBatches(test_n)
        /\ Len(images_to_log) = SamplesUpTo(x_idx)
        /\ x_logged = <<images_to_log>>

DPhase == {"t_zeroD", "t_backD", "t_stepD"}
GPhase == {"t_fwdG", "t_zeroG", "t_backG", "t_stepG"}

\* C10 (SpecTrain): in step n of train_fn the discriminator's gradients are
\* zeroed before its backward pass, so what its optimizer step uses is the
\* d_loss gradient of step n only, although the generator's backward pass of
\* step n - 1 left its g_loss gradient on the discriminator; the generator's
\* optimizer step uses the g_loss gradient of step n only, and d_loss never
\* reaches the generator (detach); each model's parameters have changed once
\* per own optimizer step and not otherwise.
C10_GradientIsolation ==
    /\ applied.disc = (IF disc.params = 0 THEN {} ELSE {<<"d_loss", disc.params>>})
    /\ applied.gen = (IF gen.params = 0 THEN {} ELSE {<<"g_loss", gen.params>>})
    /\ disc.params = (IF t_pc \in DPhase THEN nstep - 1 ELSE nstep)
    /\ gen.params = (IF t_pc \in DPhase \cup GPhase THEN nstep - 1 ELSE nstep)
    /\ \A tag \in gen.grad : tag[1] = "g_loss"
    /\ (t_pc = "t_zeroD" /\ nstep >= 2) => <<"g_loss", nstep - 1>> \in disc.grad
    /\ t_pc = "t_backD" => disc.grad = {}
    /\ t_pc = "t_stepD" => disc.grad = {<<"d_loss", nstep>>}
    /\ t_pc = "t_backG" => gen.grad = {}
    /\ t_pc = "t_stepG" =>
          /\ gen.grad = {<<"g_loss", nstep>>}
          /\ disc.grad = {<<"d_loss", nstep>>, <<"g_loss", nstep>>}

C10_Witness ==
    /\ t_pc = "t_fwdG"
    /\ nstep = 2
    /\ applied.disc = {<<"d_loss", 2>>}
    /\ applied.gen = {<<"g_loss", 1>>}
    /\ disc.params = 2

===========================================================================
